---- MODULE Spec2Model ----
(***************************************************************************)
(* State-machine model of astrbot_plugin_web_analyzer: the handlers of      *)
(* WebAnalyzerPlugin (main.py) and the per-URL analysis pipeline of         *)
(* MessageHandler (core/message_handler.py).                                *)
(*                                                                          *)
(* A task is one invocation of a plugin handler.  Tasks interleave at the   *)
(* pipeline's suspension points (semaphore acquire, fetch, LLM call,        *)
(* screenshot capture); the synchronous code that follows a suspension      *)
(* point (extract_content, update_cache, the return and the loop of         *)
(* _batch_process_urls up to the next acquire) belongs to the action that   *)
(* resumes the task.                                                        *)
(***************************************************************************)
EXTENDS Integers, Sequences, FiniteSets, TLC

\* ------------------------------------------------------------------ bounds
NumTasks == 2           \* handler invocations that may overlap
MaxMsgUrls == 2         \* URLs carried by one message
MaxConcurrencyCfg == 2  \* largest configured max_concurrency that is tried
CacheMaxSize == 1       \* max_size the CacheManager is built with
MaxCalls == NumTasks    \* process_single_url calls issued in one run

Tasks == 1..NumTasks

\* ----------------------------------------------------------------- values
Sites == {"a", "b", "x"}
blocked_domains == {"x"}

\* a URL string: host, tracking-parameter noise, trailing cache-key suffix
Url(s, n, sfx) == [site |-> s, noise |-> n, suffix |-> sfx]
RawUrls == {Url(s, n, "") : s \in Sites, n \in {0}} \cup {Url("a", 1, "")}

NoShot == "None"
Bytes == "bytes"

ContentTypes == {"both", "analysis_only", "screenshot_only"}
AnalysisModes == {"auto", "manual", "hybrid", "LLMTOOL"}

VARIABLES
    send_content_type, enable_cache, enable_screenshot, max_concurrency,
    analysis_mode, auto_analyze,
    sem, waiters, cache, processing_urls,
    tpc, urls, results, analysis, calls, cur, issued,
    memory_cache, file_metadata, disk, now, cleanup_task, closing, last, accesses,
    config_max_concurrency, group_blacklist,
    enable_recall, recall_type, smart_recall_enabled,
    recall_tasks, delete_msg_calls, handler, terminated, sent

vars == <<send_content_type, enable_cache, enable_screenshot, max_concurrency,
          analysis_mode, auto_analyze,
          sem, waiters, cache, processing_urls,
          tpc, urls, results, analysis, calls, cur, issued,
          memory_cache, file_metadata, disk, now, cleanup_task, closing, last, accesses,
          config_max_concurrency, group_blacklist,
          enable_recall, recall_type, smart_recall_enabled,
          recall_tasks, delete_msg_calls, handler, terminated, sent>>

\* what the plugin keeps besides its pipeline: the configured concurrency, the
\* group blacklist, the recall settings and tasks, the handler of the event
\* being served, the number of messages send_analysis_result yielded
plugvars == <<config_max_concurrency, group_blacklist,
              enable_recall, recall_type, smart_recall_enabled,
              recall_tasks, delete_msg_calls, handler, terminated, sent>>

\* the state of the ScreenshotTempManager of the message handler
stmvars == <<memory_cache, file_metadata, disk, now, cleanup_task, closing, last, accesses>>

cfgvars == <<send_content_type, enable_cache, enable_screenshot,
             max_concurrency, analysis_mode, auto_analyze>>

\* what the steps of process_single_url leave alone
batchvars == <<cfgvars, urls, issued>>

\* -------------------------------------------------------- pure operators

\* WebAnalyzer.normalize_url: removes the tracking parameters, keeps the rest
normalize_url(u) == [u EXCEPT !.noise = 0]

\* WebAnalyzerUtils.is_domain_allowed with an empty allow list
is_domain_allowed(u) == u.site \notin blocked_domains

\* MessageHandler.__init__: max(1, min(20, max_concurrency))
Min(x, y) == IF x < y THEN x ELSE y
Max(x, y) == IF x > y THEN x ELSE y
ClampConcurrency(n) == Max(1, Min(20, n))

\* ErrorHandler.get_error_type on the exception classes the steps raise
get_error_type(e) ==
    CASE e = "TimeoutException" -> "network_timeout"
      [] e = "ConnectError"     -> "network_connection"
      [] e = "ParserError"      -> "html_parsing"
      [] e = "CacheError"       -> "cache_error"
      [] OTHER                  -> "unknown_error"

\* ErrorHandler.handle_error: the formatted user message
handle_error(etype, u) == [kind |-> "error", etype |-> etype]

Text(k) == [kind |-> k, etype |-> ""]

IsFormattedError(txt) == txt.kind = "error"

\* ------------------------------------------------- CacheManager (core/cache.py)
\* The cache is the insertion-ordered list of its entries.
CacheLive(c, k) == \E i \in 1..Len(c) : c[i].key = k

CacheValue(c, k) ==
    LET i == CHOOSE j \in 1..Len(c) : c[j].key = k IN c[i].value

\* set(): one entry per key, the oldest insertion is evicted at capacity
CacheSet(c, k, v) ==
    LET c1 == SelectSeq(c, LAMBDA e : e.key # k)
        c2 == IF Len(c1) >= CacheMaxSize THEN Tail(c1) ELSE c1
    IN  Append(c2, [key |-> k, value |-> v])

\* ------------------------------------------------------ MessageHandler helpers

\* a screenshot-only key without the suffix
UnsuffixedKey(u) == normalize_url(u)

\* cache_key = f"{normalized_url}_screenshot_only"
ScreenshotOnlyKey(u) == [normalize_url(u) EXCEPT !.suffix = "_screenshot_only"]

\* update_cache normalizes the key it is given once more
UpdateCacheKey(k) == normalize_url(k)

\* a lookup under a key no write uses
WrongKey(u) == [normalize_url(u) EXCEPT !.suffix = "_lookup"]

\* check_cache looks the normalized URL up
CheckCacheKey(u) == normalize_url(u)

AcquireSlot(s) == s - 1

\* a `finally` that gives nothing back
LeakSlot(s) == s

ReleaseSlot(s) == s + 1

\* a semaphore that admits the longest-waiting caller whatever its value
AdmitAlways(t) == waiters # <<>> /\ Head(waiters) = t

\* a wait queue that never lets its head go
StayQueued(t) == waiters

\* the caller that got its slot (or returned) waits no longer
Dequeue(t) == SelectSeq(waiters, LAMBDA w : w # t)

\* asyncio.Semaphore: a free slot goes to the longest-waiting caller
MayAcquire(t) == sem > 0 /\ waiters # <<>> /\ Head(waiters) = t

Result(u, txt, shot, flag) ==
    [url |-> u, result |-> txt, screenshot |-> shot, has_screenshot |-> flag]

\* the dict returned on the paths that test html / content_data / screenshot
FailureResult(u, etype) == Result(u, handle_error(etype, u), NoShot, "false")

\* an `except` that hands the exception back unformatted
RawExceptionResult(u, e) == Result(u, [kind |-> "exception", etype |-> e], NoShot, "absent")

\* the dict returned by `except Exception` of process_single_url (no flag key)
CaughtResult(u, e) == Result(u, handle_error(get_error_type(e), u), NoShot, "absent")

\* the dict returned by `except Exception` of _process_screenshot_only
CaughtShotResult(u, e) == Result(u, handle_error(get_error_type(e), u), NoShot, "false")

SuccessResult(u, txt, shot) ==
    Result(u, txt, shot, IF shot # NoShot THEN "true" ELSE "false")

\* check_cache's standard-format answer built from a cached dict
HitResult(u, v, loaded) ==
    LET shot == IF v.has_screenshot = "true" /\ loaded THEN v.screenshot ELSE NoShot
    IN  Result(u, v.result, shot, IF shot # NoShot THEN "true" ELSE "false")

\* _generate_screenshot returns None without calling the analyzer
SkipsCapture == ~enable_screenshot \/ send_content_type = "analysis_only"

\* a mode test that never takes the screenshot-only branch
NeverScreenshotOnly == FALSE

\* `if self.send_content_type == "screenshot_only"` of process_single_url
IsScreenshotOnly == send_content_type = "screenshot_only"

\* the result dict _process_screenshot_only builds around a screenshot
ShotOnlyResult(u, shot) == Result(u, Text("shot_mode"), shot, "true")

\* entries a previous run of the plugin left in the persisted cache
PersistedCaches ==
    { <<>>,
      <<[key |-> normalize_url(Url("a", 0, "")),
         value |-> SuccessResult(Url("a", 0, ""), Text("llm"), Bytes)]>>,
      <<[key |-> ScreenshotOnlyKey(Url("a", 0, "")),
         value |-> ShotOnlyResult(Url("a", 0, ""), Bytes)]>> }

CurUrl(t) == urls[t][Len(results[t]) + 1]

NewCall == {}

Active == {"FETCHING", "SUMMARIZING", "SCREENSHOTTING"}

\* ------------------------------------------------------------------ Init
\* ------------------------------------------------- ScreenshotTempManager
\* max_memory_cache, ttl (in ticks of the clock), the last tick of the clock
\* and the number of callers of shutdown()
MaxMemoryCache == 2
Ttl == 0
MaxNow == 1
NumClosers == 1

Closers == 1..NumClosers

\* the URLs screenshots are stored for: one more than the memory cache holds
ShotUrls == {"u1", "u2", "u3"}
\* the URLs get_or_create_temp_path is called for
FileUrls == {"u1", "u2"}
ShotBytes == {"b1", "b2"}
None == "None"
\* b"", which `if screenshot:` takes for no screenshot
Empty == "empty"
\* what a write that failed half-way leaves in the file
Partial == "partial"

\* hashlib.md5(url).hexdigest(): one digest per URL
get_url_hash(u) ==
    CASE u = "u1" -> "c1d0"
      [] u = "u2" -> "9e2a"
      [] u = "u3" -> "47fb"
Hashes == {get_url_hash(u) : u \in ShotUrls}

\* os.path.join(cache_dir, f"{url_hash}_screenshot.bin") with the default
\* cache_dir, the manager's temp_dir
cache_screenshot_path(h) ==
    CASE h = "c1d0" -> "temp_dir/c1d0_screenshot.bin"
      [] h = "9e2a" -> "temp_dir/9e2a_screenshot.bin"
      [] h = "47fb" -> "temp_dir/47fb_screenshot.bin"
Paths == {cache_screenshot_path(h) : h \in Hashes}

File(d, t) == [data |-> d, at |-> t]
NoFile == File("no_file", 0)

\* the reaper index starts empty
NoMetadata == [h \in {} |-> None]

InMemory(mc, h) == \E i \in 1..Len(mc) : mc[i].hash = h
MemoryBytes(mc, h) == LET i == CHOOSE j \in 1..Len(mc) : mc[j].hash = h IN mc[i].data

\* a cache that moves nothing on access
KeepOrder(mc, h) == mc

\* _update_lru_cache: OrderedDict.move_to_end(url_hash) for a cached hash
update_lru_cache(mc, h) ==
    IF InMemory(mc, h)
    THEN Append(SelectSeq(mc, LAMBDA e : e.hash # h),
                [hash |-> h, data |-> MemoryBytes(mc, h)])
    ELSE mc

RECURSIVE EvictWhenOver(_)
\* an eviction loop that only runs once the cache is over its capacity
EvictWhenOver(mc) ==
    IF Len(mc) > MaxMemoryCache THEN EvictWhenOver(Tail(mc)) ELSE mc

RECURSIVE ensure_cache_size(_)
\* _ensure_cache_size: `while len(cache) >= max: popitem(last=False)`
ensure_cache_size(mc) ==
    IF Len(mc) >= MaxMemoryCache THEN ensure_cache_size(Tail(mc)) ELSE mc

\* put_to_memory: evict first, then `cache[url_hash] = screenshot`; a hash
\* that is still cached keeps its place, a new one goes to the end
put_to_memory(mc, u, d) ==
    LET h  == get_url_hash(u)
        c1 == ensure_cache_size(mc)
    IN  IF InMemory(c1, h)
        THEN [i \in 1..Len(c1) |->
                IF c1[i].hash = h THEN [hash |-> h, data |-> d] ELSE c1[i]]
        ELSE Append(c1, [hash |-> h, data |-> d])

\* get_from_memory: the bytes of a cached URL, which becomes the most
\* recently used one
get_from_memory(mc, u) ==
    LET h == get_url_hash(u)
    IN  IF InMemory(mc, h)
        THEN [mem |-> update_lru_cache(mc, h), ret |-> MemoryBytes(mc, h)]
        ELSE [mem |-> mc, ret |-> None]

\* the state of the manager as one value
Store(meta, mem, dsk) == [meta |-> meta, mem |-> mem, disk |-> dsk]

UnlinkOutcomes == {"ok", "fails"}

\* a delete step that gives up when the unlink fails
KeepOnFailure(st, h, unlink) ==
    IF h \notin DOMAIN st.meta \/ (st.disk[st.meta[h].path] # NoFile /\ unlink = "fails")
    THEN st
    ELSE Store([k \in DOMAIN st.meta \ {h} |-> st.meta[k]],
               SelectSeq(st.mem, LAMBDA e : e.hash # h),
               [st.disk EXCEPT ![st.meta[h].path] = NoFile])

\* _remove_file: unlink the file if it exists, and in `finally` drop the
\* hash from the metadata and from the memory cache
remove_file(st, h, unlink) ==
    IF h \notin DOMAIN st.meta
    THEN st
    ELSE LET p == st.meta[h].path
         IN  Store([k \in DOMAIN st.meta \ {h} |-> st.meta[k]],
                   SelectSeq(st.mem, LAMBDA e : e.hash # h),
                   IF st.disk[p] # NoFile /\ unlink = "ok"
                   THEN [st.disk EXCEPT ![p] = NoFile]
                   ELSE st.disk)

\* the hashes whose record is older than ttl
ExpiredHashes(meta, t) == {h \in DOMAIN meta : t - meta[h].created_at > Ttl}

RECURSIVE RemoveEach(_, _, _)
\* `for url_hash in expired_hashes: await self._remove_file(url_hash)`
RemoveEach(st, hs, unlink) ==
    IF hs = {}
    THEN st
    ELSE LET h == CHOOSE x \in hs : TRUE
         IN  RemoveEach(remove_file(st, h, unlink[h]), hs \ {h}, unlink)

\* _cleanup_expired_files at time t; unlink[h] is how the unlink of h ends
cleanup_expired_files(st, t, unlink) ==
    RemoveEach(st, ExpiredHashes(st.meta, t), unlink)

\* clear_all: empty the memory cache, unlink the file of every record
\* (a failed unlink is only logged) and empty the metadata
clear_all(st, unlink) ==
    Store(NoMetadata, <<>>,
          [p \in Paths |->
              IF \E h \in DOMAIN st.meta : st.meta[h].path = p /\ unlink[h] = "ok"
              THEN NoFile ELSE st.disk[p]])

\* The screenshots put since the cache was last empty, the least recently
\* accessed first, kept while every put was for a URL not put before.
NoAccesses == [order |-> <<>>, distinct |-> TRUE]
Repeated == [order |-> <<>>, distinct |-> FALSE]

WasPut(acc, u) == \E i \in 1..Len(acc.order) : acc.order[i].url = u

\* a put of bytes d for URL u
PutSeen(acc, u, d) ==
    IF acc.distinct /\ ~WasPut(acc, u)
    THEN [acc EXCEPT !.order = Append(@, [url |-> u, data |-> d])]
    ELSE Repeated

\* a read of URL u that returned `ret`
GetSeen(acc, u, ret) ==
    IF acc.distinct /\ ret # None /\ WasPut(acc, u)
    THEN [acc EXCEPT !.order =
            Append(SelectSeq(@, LAMBDA e : e.url # u), [url |-> u, data |-> ret])]
    ELSE acc

\* ScreenshotTempManager.__init__: nothing cached, nothing tracked, the
\* reaper task created
ManagerConstructed ==
    /\ memory_cache = <<>>
    /\ file_metadata = NoMetadata
    /\ disk = [p \in Paths |-> NoFile]
    /\ now = 0
    /\ cleanup_task = "sleeping"
    /\ closing = [c \in Closers |-> "idle"]
    /\ last = [op |-> "other", ret |-> None]
    /\ accesses = NoAccesses

\* a full semaphore, no URL in progress, no handler running
PipelineIdle ==
    /\ sem = max_concurrency
    /\ waiters = <<>>
    /\ processing_urls = {}
    /\ tpc = [t \in Tasks |-> "idle"]
    /\ urls = [t \in Tasks |-> <<>>]
    /\ results = [t \in Tasks |-> <<>>]
    /\ analysis = [t \in Tasks |-> "none"]
    /\ calls = [t \in Tasks |-> <<>>]
    /\ cur = [t \in Tasks |-> NewCall]
    /\ issued = 0

\* the plugin and its message handler after construction
PluginConstructed ==
    /\ send_content_type \in ContentTypes
    /\ enable_cache \in BOOLEAN
    /\ enable_screenshot \in BOOLEAN
    /\ \E n \in 0..MaxConcurrencyCfg : max_concurrency = ClampConcurrency(n)
    /\ analysis_mode \in AnalysisModes
    /\ auto_analyze = (analysis_mode = "auto")
    /\ cache \in PersistedCaches
    /\ PipelineIdle

\* ------------------------------------------- settings outside the pipeline
DefaultMaxConcurrency == 5   \* the default of MessageHandler's max_concurrency

\* the max_concurrency values a configuration may carry
ConfiguredConcurrency == {1, DefaultMaxConcurrency, 21}

Groups == {"g1", "g2"}
RecallTypes == {"smart", "time_based"}

\* parse_group_list: the group blacklist of the configuration
GroupLists == {<<>>, <<"g1">>, <<"g2">>, <<"g1", "g2">>, <<"g2", "g1">>}

\* no event is being served; mid 0 stands for no message_id
NoHandler == [pc |-> "idle", entry |-> None, blacklisted |-> FALSE, mid |-> 0]

\* WebAnalyzerPlugin.__init__: one attribute per key of the configuration,
\* no recall task, no event served yet
SettingsLoaded ==
    /\ config_max_concurrency \in ConfiguredConcurrency
    /\ group_blacklist \in GroupLists
    /\ enable_recall \in BOOLEAN
    /\ recall_type \in RecallTypes
    /\ smart_recall_enabled \in BOOLEAN
    /\ recall_tasks = <<>>
    /\ delete_msg_calls = <<>>
    /\ handler = NoHandler
    /\ terminated = FALSE
    /\ sent = 0

\* the defaults of ConfigLoader
DefaultSettings ==
    /\ SettingsLoaded
    /\ config_max_concurrency = DefaultMaxConcurrency
    /\ group_blacklist = <<>>
    /\ enable_recall
    /\ recall_type = "smart"
    /\ smart_recall_enabled

Init == PluginConstructed /\ ManagerConstructed /\ DefaultSettings

\* --------------------------------------------- _batch_process_urls, the loop
\* a loop that a failed result would end
StopsAtFailure(t, rs) ==
    Len(rs) < Len(urls[t]) /\ ~IsFormattedError(rs[Len(rs)].result)

\* `for url in urls`: the loop goes on while a URL is left, whatever the
\* results so far
MoreUrls(t, rs) == Len(rs) < Len(urls[t])

\* a list that takes each new result at its front
PutFirst(rs, res) == <<res>> \o rs

\* `results.append(result)`: the result of the URL just processed goes to the
\* end of the list
Collect(rs, res) == Append(rs, res)

\* process_single_url returned `res` for the current URL: release the slot
\* (finally), append the result, discard the URL and go on with the next one.
Returns(t, res, log, semNow, cacheNow) ==
    LET u  == CurUrl(t)
        rs == Collect(results[t], res)
        more == MoreUrls(t, rs)
    IN  /\ sem' = ReleaseSlot(semNow)
        /\ cache' = cacheNow
        /\ results' = [results EXCEPT ![t] = rs]
        /\ calls' = [calls EXCEPT ![t] = Append(@, log)]
        /\ cur' = [cur EXCEPT ![t] = NewCall]
        /\ analysis' = [analysis EXCEPT ![t] = "none"]
        /\ IF more
           THEN /\ tpc' = [tpc EXCEPT ![t] = "PENDING"]
                /\ waiters' = Append(Dequeue(t), t)
                /\ processing_urls' = (processing_urls \ {u}) \cup {urls[t][Len(rs) + 1]}
           ELSE /\ tpc' = [tpc EXCEPT ![t] = "collected"]
                /\ waiters' = Dequeue(t)
                /\ processing_urls' = processing_urls \ {u}
        /\ UNCHANGED <<plugvars, stmvars, batchvars>>

\* what is recorded of a finished call: the steps that raised in it and the
\* kind of cache entry its result was taken from
NoHit == "none"
Log(c, hit) == [raised |-> c, hit |-> hit]

\* the task goes on to the next suspension point, still holding its slot
Proceeds(t, pc, c, an, semNow, cacheNow) ==
    /\ tpc' = [tpc EXCEPT ![t] = pc]
    /\ cur' = [cur EXCEPT ![t] = c]
    /\ analysis' = [analysis EXCEPT ![t] = an]
    /\ sem' = semNow
    /\ cache' = cacheNow
    /\ waiters' = Dequeue(t)
    /\ UNCHANGED <<plugvars, stmvars, batchvars, results, calls, processing_urls>>

\* ------------------------------------------- MessageHandler.process_single_url
FetchOutcomes == {"ok", "empty", "raise", "extract_none", "extract_raise"}
LlmOutcomes == {"text", "none", "raise"}
CaptureOutcomes == {"bytes", "none", "raise"}

\* steps 1-2 of the full pipeline: check_cache, then `async with analyzer` and fetch
FullStart(t, u, s1) ==
    IF ~enable_cache
    THEN Proceeds(t, "FETCHING", {}, "none", s1, cache)
    ELSE \/ Returns(t, CaughtResult(u, "CacheError"), Log({"lookup"}, NoHit), s1, cache)
         \/ LET k == CheckCacheKey(u)
            IN  IF CacheLive(cache, k)
                THEN \E loaded \in BOOLEAN :
                        Returns(t, HitResult(u, CacheValue(cache, k), loaded),
                                Log({}, CacheValue(cache, k).result.kind), s1, cache)
                ELSE Proceeds(t, "FETCHING", {}, "none", s1, cache)

\* _process_screenshot_only up to the capture
ShotOnlyStart(t, u, s1) ==
    LET k == ScreenshotOnlyKey(u)
        capture ==
            IF ~enable_screenshot
            THEN Returns(t, FailureResult(u, "screenshot_error"), Log({}, NoHit), s1, cache)
            ELSE Proceeds(t, "SCREENSHOTTING", {}, "none", s1, cache)
    IN  IF ~enable_cache
        THEN capture
        ELSE \/ Returns(t, CaughtShotResult(u, "CacheError"), Log({"lookup"}, NoHit), s1, cache)
             \/ IF CacheLive(cache, k)
                THEN \/ /\ CacheValue(cache, k).screenshot # NoShot
                        /\ Returns(t, ShotOnlyResult(u, CacheValue(cache, k).screenshot),
                                   Log({}, CacheValue(cache, k).result.kind), s1, cache)
                     \/ capture
                ELSE capture

Acquire(t) ==
    /\ tpc[t] = "PENDING"
    /\ MayAcquire(t)
    /\ IF IsScreenshotOnly
       THEN ShotOnlyStart(t, CurUrl(t), AcquireSlot(sem))
       ELSE FullStart(t, CurUrl(t), AcquireSlot(sem))

\* steps 7-8: result_data, update_cache, return
Complete(t, c, txt, shot) ==
    LET u   == CurUrl(t)
        res == SuccessResult(u, txt, shot)
    IN  IF ~enable_cache
        THEN Returns(t, res, Log(c, NoHit), sem, cache)
        ELSE \/ Returns(t, CaughtResult(u, "CacheError"), Log(c \cup {"write"}, NoHit), sem, cache)
             \/ Returns(t, res, Log(c, NoHit), sem, CacheSet(cache, UpdateCacheKey(u), res))

\* steps 2-3: fetch_webpage returned or raised, then extract_content
FetchDone(t) ==
    /\ tpc[t] = "FETCHING"
    /\ \E out \in FetchOutcomes :
        LET u == CurUrl(t)
        IN  CASE out = "raise" ->
                    Returns(t, CaughtResult(u, "TimeoutException"), Log({"fetch"}, NoHit), sem, cache)
              [] out = "empty" ->
                    Returns(t, FailureResult(u, "network_error"), Log({}, NoHit), sem, cache)
              [] out = "extract_raise" ->
                    Returns(t, CaughtResult(u, "ParserError"), Log({"extract"}, NoHit), sem, cache)
              [] out = "extract_none" ->
                    Returns(t, FailureResult(u, "parsing_error"), Log({}, NoHit), sem, cache)
              [] out = "ok" ->
                    Proceeds(t, "SUMMARIZING", {}, "none", sem, cache)

\* step 4: _analyze_content (analyze_with_llm swallows its exceptions and the
\* basic excerpt stands in), then step 6 when no capture is made
SummarizeDone(t) ==
    /\ tpc[t] = "SUMMARIZING"
    /\ \E out \in LlmOutcomes :
        LET an == IF out = "text" THEN "llm" ELSE "basic"
            c  == IF out = "raise" THEN {"llm"} ELSE {}
        IN  IF SkipsCapture
            THEN Complete(t, c, Text(an), NoShot)
            ELSE Proceeds(t, "SCREENSHOTTING", c, an, sem, cache)

\* capture_screenshot returned or raised
ScreenshotDone(t) ==
    /\ tpc[t] = "SCREENSHOTTING"
    /\ \E out \in CaptureOutcomes :
        LET u    == CurUrl(t)
            c    == IF out = "raise" THEN cur[t] \cup {"capture"} ELSE cur[t]
            shot == IF out = "bytes" THEN Bytes ELSE NoShot
        IN  IF IsScreenshotOnly
            THEN IF shot # NoShot
                 THEN LET res == ShotOnlyResult(u, shot)
                      IN  IF ~enable_cache
                          THEN Returns(t, res, Log(c, NoHit), sem, cache)
                          ELSE \/ Returns(t, CaughtShotResult(u, "CacheError"),
                                          Log(c \cup {"write"}, NoHit), sem, cache)
                               \/ Returns(t, res, Log(c, NoHit), sem,
                                          CacheSet(cache, UpdateCacheKey(ScreenshotOnlyKey(u)), res))
                 ELSE Returns(t, FailureResult(u, "screenshot_error"), Log(c, NoHit), sem, cache)
            ELSE Complete(t, c, Text(analysis[t]), shot)

\* an entry outlives expire_time: the cache no longer answers with it
CacheExpire ==
    /\ \E k \in {cache[i].key : i \in 1..Len(cache)} :
        cache' = SelectSeq(cache, LAMBDA e : e.key # k)
    /\ UNCHANGED <<plugvars, stmvars, batchvars, sem, waiters, processing_urls, tpc, results, analysis, calls, cur>>

\* the batch hands its results to send_analysis_result and ends
FinishBatch(t) ==
    /\ tpc[t] = "collected"
    /\ tpc' = [tpc EXCEPT ![t] = "done"]
    /\ results' = [results EXCEPT ![t] = <<>>]
    /\ calls' = [calls EXCEPT ![t] = <<>>]
    /\ urls' = [urls EXCEPT ![t] = <<>>]
    /\ UNCHANGED <<plugvars, stmvars, cfgvars, issued, sem, waiters, cache, processing_urls, analysis, cur>>

\* ------------------------------------------------ WebAnalyzerPlugin handlers
\* the URLs extract_urls finds in a message
Messages == UNION {[1..n -> RawUrls] : n \in 1..MaxMsgUrls}

Range(f) == {f[i] : i \in DOMAIN f}

\* list(set(...)): every order of the distinct elements
Orderings(S) ==
    {f \in [1..Cardinality(S) -> S] : \A i, j \in 1..Cardinality(S) : i # j => f[i] # f[j]}

\* valid_urls, then allowed_urls
AllowedUrls(msg) == {u \in {normalize_url(r) : r \in Range(msg)} : is_domain_allowed(u)}

\* the URL lists a message can leave after validation, deduplication and the
\* domain filter
Batches == UNION {Orderings(AllowedUrls(msg)) : msg \in Messages} \ {<<>>}

\* some message leaves no URL to analyse
NothingAllowed == \E msg \in Messages : AllowedUrls(msg) = {}

\* handlers are interchangeable: the next free task takes the next event
CanStart(t) == tpc[t] = "idle" /\ \A s \in Tasks : s < t => tpc[s] # "idle"

StartBatch(t, us) ==
    /\ issued + Len(us) <= MaxCalls
    /\ issued' = issued + Len(us)
    /\ tpc' = [tpc EXCEPT ![t] = "PENDING"]
    /\ urls' = [urls EXCEPT ![t] = us]
    /\ waiters' = Append(waiters, t)
    /\ processing_urls' = processing_urls \cup {us[1]}
    /\ UNCHANGED <<plugvars, stmvars, cfgvars, sem, cache, results, analysis, calls, cur>>

Ends(t) ==
    /\ tpc' = [tpc EXCEPT ![t] = "done"]
    /\ UNCHANGED <<plugvars, stmvars, cfgvars, issued, sem, waiters, cache, processing_urls, urls, results, analysis, calls, cur>>

\* /网页分析 <urls>
AnalyzeWebpage(t) ==
    /\ CanStart(t)
    /\ \/ NothingAllowed /\ Ends(t)
       \/ \E us \in Batches : StartBatch(t, us)

\* every message, when automatic analysis is on
AutoDetectUrls(t) ==
    /\ CanStart(t)
    /\ IF analysis_mode = "manual" \/ ~auto_analyze \/ analysis_mode = "LLMTOOL"
       THEN Ends(t)
       ELSE \/ NothingAllowed /\ Ends(t)
            \/ \E us \in Batches : StartBatch(t, us)

\* the analyze_webpage LLM tool
AnalyzeWebpageTool(t) ==
    /\ CanStart(t)
    /\ \E r \in RawUrls :
        IF analysis_mode # "LLMTOOL" \/ ~is_domain_allowed(normalize_url(r))
        THEN Ends(t)
        ELSE StartBatch(t, <<normalize_url(r)>>)

\* /web_export <url>: check_cache, else fetch and analyse in the handler itself
ExportAnalysisResult(t) ==
    /\ CanStart(t)
    /\ \E r \in RawUrls :
        IF enable_cache /\ CacheLive(cache, CheckCacheKey(r))
        THEN Ends(t)
        ELSE /\ tpc' = [tpc EXCEPT ![t] = "EXPORT_FETCHING"]
             /\ urls' = [urls EXCEPT ![t] = <<r>>]
             /\ UNCHANGED <<plugvars, stmvars, cfgvars, issued, sem, waiters, cache, processing_urls, results, analysis, calls, cur>>

\* the export's fetch, extract and LLM call end (or raise out of the handler)
ExportFetchDone(t) ==
    /\ tpc[t] = "EXPORT_FETCHING"
    /\ tpc' = [tpc EXCEPT ![t] = "done"]
    /\ urls' = [urls EXCEPT ![t] = <<>>]
    /\ UNCHANGED <<plugvars, stmvars, cfgvars, issued, sem, waiters, cache, processing_urls, results, analysis, calls, cur>>

\* ------------------------------------------------------------ specification
Next ==
    \/ \E t \in Tasks : AnalyzeWebpage(t)
    \/ \E t \in Tasks : AutoDetectUrls(t)
    \/ \E t \in Tasks : AnalyzeWebpageTool(t)
    \/ \E t \in Tasks : ExportAnalysisResult(t)
    \/ \E t \in Tasks : ExportFetchDone(t)
    \/ \E t \in Tasks : Acquire(t)
    \/ \E t \in Tasks : FetchDone(t)
    \/ \E t \in Tasks : SummarizeDone(t)
    \/ \E t \in Tasks : ScreenshotDone(t)
    \/ \E t \in Tasks : FinishBatch(t)
    \/ CacheExpire

Spec == Init /\ [][Next]_vars

TypeOK ==
    /\ sem \in 0..max_concurrency
    /\ \A t \in Tasks : Len(results[t]) <= Len(urls[t])

\* the scheduler resumes every task whose awaited step has ended, and every
\* external step (fetch, LLM call, capture) ends
Fairness ==
    \A t \in Tasks :
        /\ WF_vars(Acquire(t))
        /\ WF_vars(FetchDone(t))
        /\ WF_vars(SummarizeDone(t))
        /\ WF_vars(ScreenshotDone(t))

\* the plugin as installed: default analysis mode, nothing cached yet
FairInit == Init /\ analysis_mode = "auto" /\ cache = <<>>

FairSpec == FairInit /\ [][Next]_vars /\ Fairness

\* ------------------------------------- ScreenshotTempManager, its operations
pipevars == <<send_content_type, enable_cache, enable_screenshot, max_concurrency,
              analysis_mode, auto_analyze, sem, waiters, cache, processing_urls,
              tpc, urls, results, analysis, calls, cur, issued>>

\* what ran last: a call of get_or_create_temp_path and what it returned, a
\* reaper cycle, or another operation
Did(op, ret) == [op |-> op, ret |-> ret]
Other == Did("other", None)

StoreNow == Store(file_metadata, memory_cache, disk)

\* the manager's maps become those of `st`
Becomes(st) ==
    /\ file_metadata' = st.meta
    /\ memory_cache' = st.mem
    /\ disk' = st.disk

PutToMemory(u, d) ==
    /\ memory_cache' = put_to_memory(memory_cache, u, d)
    /\ last' = Other
    /\ accesses' = PutSeen(accesses, u, d)
    /\ UNCHANGED <<plugvars, pipevars, file_metadata, disk, now, cleanup_task, closing>>

GetFromMemory(u) ==
    LET got == get_from_memory(memory_cache, u)
    IN  /\ memory_cache' = got.mem
        /\ last' = Other
        /\ accesses' = GetSeen(accesses, u, got.ret)
        /\ UNCHANGED <<plugvars, pipevars, file_metadata, disk, now, cleanup_task, closing>>

\* how `open(path, "wb")` and `f.write(screenshot)` end
WriteOutcomes == {"ok", "open_fails", "write_fails"}

\* a lookup that never finds the file
NeverExists(dsk, p) == FALSE

\* os.path.exists(cache_screenshot_path)
PathExists(dsk, p) == dsk[p] # NoFile

\* `if screenshot:`
Truthy(d) == d \notin {None, Empty}

\* get_or_create_temp_path(url, screenshot) with the default cache_dir, at
\* time t, the write ending as w: the store afterwards and the value returned
get_or_create_temp_path(st, u, d, w, t) ==
    LET h == get_url_hash(u)
        p == cache_screenshot_path(h)
    IN  IF PathExists(st.disk, p)
        THEN [st  |-> IF Truthy(d)
                      THEN Store(st.meta, put_to_memory(st.mem, u, d), st.disk)
                      ELSE st,
              ret |-> p]
        ELSE IF Truthy(d)
        THEN CASE w = "ok" ->
                    [st  |-> Store(st.meta, put_to_memory(st.mem, u, d),
                                   [st.disk EXCEPT ![p] = File(d, t)]),
                     ret |-> p]
               [] w = "write_fails" ->
                    [st  |-> Store(st.meta, st.mem,
                                   [st.disk EXCEPT ![p] = File(Partial, t)]),
                     ret |-> None]
               [] OTHER ->
                    [st |-> st, ret |-> None]
        ELSE [st |-> st, ret |-> None]

\* the call opens the file for writing
Writes(u, d) ==
    Truthy(d) /\ ~PathExists(disk, cache_screenshot_path(get_url_hash(u)))

GetOrCreateTempPath(u, d, w) ==
    LET got == get_or_create_temp_path(StoreNow, u, d, w, now)
    IN  /\ Writes(u, d) \/ w = "ok"
        /\ Becomes(got.st)
        /\ last' = Did("get_or_create_temp_path", got.ret)
        /\ accesses' = IF Truthy(d) /\ got.ret # None
                       THEN PutSeen(accesses, u, d) ELSE accesses
        /\ UNCHANGED <<plugvars, pipevars, now, cleanup_task, closing>>

ClearAll ==
    /\ \E unlink \in [DOMAIN file_metadata -> UnlinkOutcomes] :
            Becomes(clear_all(StoreNow, unlink))
    /\ last' = Other
    /\ accesses' = NoAccesses
    /\ UNCHANGED <<plugvars, pipevars, now, cleanup_task, closing>>

\* time passes
Tick ==
    /\ now < MaxNow
    /\ now' = now + 1
    /\ last' = Other
    /\ UNCHANGED <<plugvars, pipevars, accesses, memory_cache, file_metadata, disk, cleanup_task, closing>>

\* _cleanup_loop: the sleep of the reaper task ends and one cycle runs; the
\* cycle has no suspension point of its own
CleanupLoop ==
    /\ cleanup_task = "sleeping"
    /\ \E unlink \in [DOMAIN file_metadata -> UnlinkOutcomes] :
            Becomes(cleanup_expired_files(StoreNow, now, unlink))
    /\ last' = Did("_cleanup_expired_files", None)
    /\ accesses' = IF memory_cache' = memory_cache THEN accesses ELSE Repeated
    /\ UNCHANGED <<plugvars, pipevars, now, cleanup_task, closing>>

\* the cancelled reaper task is resumed inside its sleep with CancelledError
\* and leaves the loop
CleanupCancelled ==
    /\ cleanup_task = "cancelling"
    /\ cleanup_task' = "done"
    /\ UNCHANGED <<plugvars, pipevars, memory_cache, file_metadata, disk, now, closing, last, accesses>>

\* a shutdown that does not wait for the reaper task
ReturnsAtOnce(c) == closing[c] = "awaiting"

\* `await self._cleanup_task` of caller c ends once the task has ended
TaskAwaited(c) == closing[c] = "awaiting" /\ cleanup_task = "done"

\* shutdown(), called for the first time or again: cancel the reaper task
\* unless it is done, and await it
Shutdown(c) ==
    /\ closing[c] \in {"idle", "returned"}
    /\ IF cleanup_task # "done"
       THEN /\ cleanup_task' = "cancelling"
            /\ closing' = [closing EXCEPT ![c] = "awaiting"]
            /\ UNCHANGED last
       ELSE /\ closing' = [closing EXCEPT ![c] =
                            IF @ = "idle" THEN "returned" ELSE "returned_twice"]
            /\ last' = Other
            /\ UNCHANGED cleanup_task
    /\ UNCHANGED <<plugvars, pipevars, memory_cache, file_metadata, disk, now, accesses>>

ShutdownReturns(c) ==
    /\ TaskAwaited(c)
    /\ closing' = [closing EXCEPT ![c] = "returned"]
    /\ last' = Other
    /\ UNCHANGED <<plugvars, pipevars, memory_cache, file_metadata, disk, now, cleanup_task, accesses>>

StmNext ==
    \/ \E u \in ShotUrls, d \in ShotBytes : PutToMemory(u, d)
    \/ \E u \in ShotUrls : GetFromMemory(u)
    \/ \E u \in FileUrls, d \in ShotBytes \cup {None, Empty}, w \in WriteOutcomes :
            GetOrCreateTempPath(u, d, w)
    \/ ClearAll
    \/ Tick
    \/ CleanupLoop
    \/ CleanupCancelled
    \/ \E c \in Closers : Shutdown(c)
    \/ \E c \in Closers : ShutdownReturns(c)

\* the plugin as installed and idle
PluginIdle ==
    /\ PluginConstructed
    /\ send_content_type = "both" /\ enable_cache /\ enable_screenshot
    /\ max_concurrency = ClampConcurrency(MaxConcurrencyCfg)
    /\ analysis_mode = "auto"
    /\ cache = <<>>
    /\ DefaultSettings

\* the manager just constructed
StmInit == PluginIdle /\ ManagerConstructed

StmSpec == StmInit /\ [][StmNext]_vars

\* ------------------------------------------------ _remove_file on its own
\* the memory caches of at most max_memory_cache screenshots
MemoryCaches ==
    UNION {{c \in [1..n -> [hash : Hashes, data : {"b1"}]] :
                \A i, j \in 1..n : c[i].hash = c[j].hash => i = j}
           : n \in 0..MaxMemoryCache}

\* the reaper indexes over the hashes of S, created at time 0
MetadataOf(S) ==
    [h \in S |-> [path |-> cache_screenshot_path(h), created_at |-> 0]]

\* _remove_file is applied to a manager that tracks records: any set of
\* tracked hashes, the file of a tracked hash there or already gone, any
\* memory cache
RemoveInit ==
    /\ PluginIdle
    /\ \E S \in SUBSET Hashes : \E gone \in SUBSET S :
            /\ file_metadata = MetadataOf(S)
            /\ disk = [q \in Paths |->
                            IF \E h \in S \ gone : cache_screenshot_path(h) = q
                            THEN File("b1", 0) ELSE NoFile]
    /\ memory_cache \in MemoryCaches
    /\ now \in 0..MaxNow
    /\ cleanup_task = "sleeping"
    /\ closing = [c \in Closers |-> "idle"]
    /\ accesses = Repeated
    /\ last = Other

RemoveFile(h, unlink) ==
    /\ Becomes(remove_file(StoreNow, h, unlink))
    /\ last' = Did("_remove_file", None)
    /\ UNCHANGED <<plugvars, pipevars, now, cleanup_task, closing, accesses>>

RemoveNext ==
    \/ \E h \in Hashes, unlink \in UnlinkOutcomes : RemoveFile(h, unlink)
    \/ CleanupLoop
    \/ Tick

RemoveSpec == RemoveInit /\ [][RemoveNext]_vars

\* --------------------------------- commands, notices, recall and unloading
MaxNotices == 2   \* processing notices that obtain a message_id in one run

\* an event as _get_group_id sees it: the kind of its unified_msg_origin and
\* the group it comes from (None for a private chat)
UmoKinds == {"str", "object"}
Events == [umo : UmoKinds, group : Groups \cup {None}]

\* WebAnalyzerPlugin._get_group_id: a string origin yields no group id
get_group_id(ev) == IF ev.umo = "str" THEN None ELSE ev.group

\* WebAnalyzerPlugin._is_group_blacklisted
is_group_blacklisted(bl, g) == g # None /\ bl # <<>> /\ g \in Range(bl)

\* the event's group is on the list in force
OnBlacklist(ev) == ev.group \in Range(group_blacklist)

\* the recall delay as a loaded setting
RecallTimeLoaded == TRUE

\* self.recall_time: __init__ sets one attribute per configuration key and
\* the key is recall_time_s, so the attribute is absent and reading it raises
\* AttributeError
RecallTimeSet == FALSE

\* the arguments tried with /web_mode
ModeArgs == {"auto", "manual", "hybrid", "LLMTOOL", "AUTO", "fast"}

\* str.lower
Lower(arg) ==
    CASE arg = "LLMTOOL" -> "llmtool"
      [] arg = "AUTO" -> "auto"
      [] OTHER -> arg

valid_modes == {"auto", "manual", "hybrid", "LLMTOOL"}

\* /web_mode <arg>
ManageAnalysisMode(arg) ==
    /\ ~terminated
    /\ LET mode == Lower(arg) IN
        IF mode \notin valid_modes
        THEN UNCHANGED <<analysis_mode, auto_analyze>>
        ELSE /\ analysis_mode' = mode
             /\ auto_analyze' = (mode = "auto")
    /\ last' = Did("web_mode", arg)
    /\ UNCHANGED <<plugvars, send_content_type, enable_cache, enable_screenshot,
                   max_concurrency, sem, waiters, cache, processing_urls,
                   tpc, urls, results, analysis, calls, cur, issued,
                   memory_cache, file_metadata, disk, now, cleanup_task, closing, accesses>>

BlacklistActions == {"add", "remove", "clear"}

\* the list after /group_blacklist <action> <g>
group_blacklist_after(bl, action, g) ==
    CASE action = "add" -> IF g \in Range(bl) THEN bl ELSE Append(bl, g)
      [] action = "remove" -> SelectSeq(bl, LAMBDA x : x # g)
      [] action = "clear" -> <<>>

\* /group_blacklist add|remove|clear
ManageGroupBlacklist(action, g) ==
    /\ ~terminated
    /\ group_blacklist' = group_blacklist_after(group_blacklist, action, g)
    /\ UNCHANGED <<pipevars, stmvars, sent, config_max_concurrency,
                   enable_recall, recall_type, smart_recall_enabled,
                   recall_tasks, delete_msg_calls, handler, terminated>>

\* a handler may take the next event
HandlerFree == ~terminated /\ handler.pc \in {"idle", "returned", "raised"}

\* the handler returns before any notice
Refuses(entry, ev) ==
    /\ handler' = [pc |-> "returned", entry |-> entry,
                   blacklisted |-> OnBlacklist(ev), mid |-> 0]
    /\ UNCHANGED <<recall_tasks, delete_msg_calls>>

\* _send_processing_message, then the batch starts: the notice goes out, with
\* a message_id (`got`) or without; a timed recall task is created for it
SendProcessingMessage(entry, ev, got) ==
    LET mid == IF got THEN Len(delete_msg_calls) + 1 ELSE 0 IN
    /\ got => Len(delete_msg_calls) < MaxNotices
    /\ delete_msg_calls' = IF got THEN Append(delete_msg_calls, 0) ELSE delete_msg_calls
    /\ recall_tasks' =
          IF got /\ enable_recall /\ recall_type = "time_based" /\ RecallTimeSet
          THEN Append(recall_tasks, mid)
          ELSE recall_tasks
    /\ handler' = [pc |-> "batch", entry |-> entry,
                   blacklisted |-> OnBlacklist(ev), mid |-> mid]

\* what the entry points leave alone
EntryFrame ==
    UNCHANGED <<pipevars, stmvars, sent, config_max_concurrency, group_blacklist,
                enable_recall, recall_type, smart_recall_enabled, terminated>>

\* /网页分析 with an allowed URL
OnAnalyzeWebpage(ev, got) ==
    /\ HandlerFree
    /\ IF is_group_blacklisted(group_blacklist, get_group_id(ev))
       THEN Refuses("analyze_webpage", ev)
       ELSE SendProcessingMessage("analyze_webpage", ev, got)
    /\ EntryFrame

\* a message with an allowed URL, seen by auto_detect_urls
OnAutoDetectUrls(ev, got) ==
    /\ HandlerFree
    /\ IF \/ analysis_mode = "manual"
          \/ ~auto_analyze
          \/ is_group_blacklisted(group_blacklist, get_group_id(ev))
          \/ analysis_mode = "LLMTOOL"
       THEN Refuses("auto_detect_urls", ev)
       ELSE SendProcessingMessage("auto_detect_urls", ev, got)
    /\ EntryFrame

\* the analyze_webpage LLM tool called with an allowed URL
OnAnalyzeWebpageTool(ev, got) ==
    /\ HandlerFree
    /\ IF analysis_mode # "LLMTOOL"
       THEN Refuses("analyze_webpage_tool", ev)
       ELSE SendProcessingMessage("analyze_webpage_tool", ev, got)
    /\ EntryFrame

\* bot.delete_msg(message_id = m) is called
DeleteMsg(m) == delete_msg_calls' = [delete_msg_calls EXCEPT ![m] = @ + 1]

\* the end of _batch_process_urls: the results are sent, then the notice is
\* recalled; the call of _recall_processing_message reads self.recall_time
BatchEnds ==
    /\ handler.pc = "batch"
    /\ IF enable_recall /\ handler.mid # 0
       THEN IF ~RecallTimeSet
            THEN /\ handler' = [handler EXCEPT !.pc = "raised"]
                 /\ UNCHANGED delete_msg_calls
            ELSE IF recall_type = "smart" /\ smart_recall_enabled
            THEN /\ DeleteMsg(handler.mid)
                 /\ handler' = [handler EXCEPT !.pc = "returned"]
            ELSE /\ handler' = [handler EXCEPT !.pc = "recall_sleeping"]
                 /\ UNCHANGED delete_msg_calls
       ELSE /\ handler' = [handler EXCEPT !.pc = "returned"]
            /\ UNCHANGED delete_msg_calls
    /\ UNCHANGED <<pipevars, stmvars, sent, config_max_concurrency, group_blacklist,
                   enable_recall, recall_type, smart_recall_enabled,
                   recall_tasks, terminated>>

\* _recall_task after its sleep: delete_msg, then the done callback removes
\* the task from recall_tasks
RecallTaskWakes ==
    /\ \E i \in 1..Len(recall_tasks) :
        /\ DeleteMsg(recall_tasks[i])
        /\ recall_tasks' = SubSeq(recall_tasks, 1, i - 1)
                             \o SubSeq(recall_tasks, i + 1, Len(recall_tasks))
    /\ UNCHANGED <<pipevars, stmvars, sent, config_max_concurrency, group_blacklist,
                   enable_recall, recall_type, smart_recall_enabled,
                   handler, terminated>>

\* _recall_processing_message after its sleep
RecallWakes ==
    /\ handler.pc = "recall_sleeping"
    /\ DeleteMsg(handler.mid)
    /\ handler' = [handler EXCEPT !.pc = "returned"]
    /\ UNCHANGED <<pipevars, stmvars, sent, config_max_concurrency, group_blacklist,
                   enable_recall, recall_type, smart_recall_enabled,
                   recall_tasks, terminated>>

\* the tasks the plugin leaves in asyncio.sleep
Sleepers == {"_cleanup_loop", "_recall_task", "_recall_processing_message"}

\* the event loop resumes a task whose sleep has ended
TimerFires(k) ==
    IF k = "_cleanup_loop" THEN CleanupLoop
    ELSE IF k = "_recall_task" THEN RecallTaskWakes
    ELSE RecallWakes

\* WebAnalyzerPlugin.terminate: writes a log line
Terminate ==
    /\ ~terminated
    /\ terminated' = TRUE
    /\ UNCHANGED <<pipevars, stmvars, sent, config_max_concurrency, group_blacklist,
                   enable_recall, recall_type, smart_recall_enabled,
                   recall_tasks, delete_msg_calls, handler>>

CmdNext ==
    \/ \E arg \in ModeArgs : ManageAnalysisMode(arg)
    \/ \E action \in BlacklistActions, g \in Groups : ManageGroupBlacklist(action, g)
    \/ \E ev \in Events, got \in BOOLEAN : OnAnalyzeWebpage(ev, got)
    \/ \E ev \in Events, got \in BOOLEAN : OnAutoDetectUrls(ev, got)
    \/ \E ev \in Events, got \in BOOLEAN : OnAnalyzeWebpageTool(ev, got)
    \/ BatchEnds
    \/ \E k \in Sleepers : TimerFires(k)
    \/ Terminate

\* the plugin as _init_components builds it: the message handler is given no
\* max_concurrency and takes its default
CmdInit ==
    /\ send_content_type = "both"
    /\ enable_cache = TRUE
    /\ enable_screenshot = TRUE
    /\ max_concurrency = ClampConcurrency(DefaultMaxConcurrency)
    /\ analysis_mode \in AnalysisModes
    /\ auto_analyze = (analysis_mode = "auto")
    /\ cache = <<>>
    /\ PipelineIdle
    /\ ManagerConstructed
    /\ SettingsLoaded

CmdSpec == CmdInit /\ [][CmdNext]_vars

\* ------------------------------------------------- send_analysis_result
\* analysis texts: an LLM summary, the basic summary, a summary in which one
\* of the words 失败 / 错误 / 无法 / ❌ occurs, and the "分析失败" that
\* _analyze_content returns when the LLM call raises
Summaries == {Text("llm"), Text("basic"), Text("llm_names_failure"), Text("analysis_failed")}

\* any(keyword in result_text ...): every message of handle_error starts with ❌
has_failure_keyword(txt) ==
    IsFormattedError(txt) \/ txt \in {Text("llm_names_failure"), Text("analysis_failed")}

\* the results process_single_url can return for URL u under content type ct
ResultsFor(u, ct) ==
    IF ct = "screenshot_only"
    THEN {ShotOnlyResult(u, Bytes), FailureResult(u, "screenshot_error"),
          CaughtShotResult(u, "TimeoutException")}
    ELSE {SuccessResult(u, txt, shot) :
              txt \in Summaries,
              shot \in IF ct = "analysis_only" THEN {NoShot} ELSE {NoShot, Bytes}}
         \cup {FailureResult(u, "network_error"), CaughtResult(u, "TimeoutException")}

\* the `all_errors` loop of send_analysis_result
all_errors(ct, rs) ==
    \A i \in 1..Len(rs) :
        IF ct = "screenshot_only"
        THEN rs[i].has_screenshot # "true"
        ELSE rs[i].screenshot = NoShot /\ has_failure_keyword(rs[i].result)

\* _prepare_screenshots_for_send gives result r a temp file: the flag is set,
\* the bytes are there and the write (outcome w) succeeds
HasTempPath(r, w) ==
    r.has_screenshot = "true" /\ r.screenshot # NoShot /\ w = "ok"

\* messages yielded by _send_screenshots_only
send_screenshots_only(rs, w) ==
    Cardinality({i \in 1..Len(rs) : HasTempPath(rs[i], w)})

\* messages yielded by _send_individually: one text per result, then its image
send_individually(ct, rs, w) ==
    Len(rs)
    + Cardinality({i \in 1..Len(rs) :
            /\ ct # "analysis_only"
            /\ rs[i].screenshot # NoShot \/ rs[i].has_screenshot = "true"
            /\ HasTempPath(rs[i], w)})

\* messages yielded by _send_with_merge_forward: the merged message, then the
\* images that were not put into the nodes
send_with_merge_forward(ct, rs, include, w) ==
    1 + IF include THEN 0
        ELSE Cardinality({i \in 1..Len(rs) : HasTempPath(rs[i], w) /\ ct = "both"})

\* the number of messages send_analysis_result yields
send_analysis_result(ct, rs, merge, include, w) ==
    IF rs = <<>> \/ all_errors(ct, rs) THEN 0
    ELSE IF ct = "screenshot_only" THEN send_screenshots_only(rs, w)
    ELSE IF merge THEN send_with_merge_forward(ct, rs, include, w)
    ELSE send_individually(ct, rs, w)

\* the end of _batch_process_urls for batch t: its results are sent
SendAnalysisResult(t) ==
    /\ tpc[t] = "collected"
    /\ \E merge \in BOOLEAN, include \in BOOLEAN, w \in {"ok", "fails"} :
          sent' = send_analysis_result(send_content_type, results[t], merge, include, w)
    /\ tpc' = [tpc EXCEPT ![t] = "sent"]
    /\ UNCHANGED <<stmvars, cfgvars, issued, sem, waiters, cache, processing_urls,
                   urls, results, analysis, calls, cur,
                   config_max_concurrency, group_blacklist,
                   enable_recall, recall_type, smart_recall_enabled,
                   recall_tasks, delete_msg_calls, handler, terminated>>

\* a batch of task 1 has collected one result per URL
SendInit ==
    /\ send_content_type \in ContentTypes
    /\ enable_cache = TRUE
    /\ enable_screenshot = TRUE
    /\ max_concurrency = ClampConcurrency(MaxConcurrencyCfg)
    /\ analysis_mode = "auto"
    /\ auto_analyze = TRUE
    /\ sem = max_concurrency
    /\ waiters = <<>>
    /\ cache = <<>>
    /\ processing_urls = {}
    /\ \E us \in Batches :
        /\ urls = [t \in Tasks |-> IF t = 1 THEN us ELSE <<>>]
        /\ \E rs \in [1..Len(us) -> UNION {ResultsFor(u, send_content_type) : u \in Range(us)}] :
            /\ \A i \in 1..Len(us) : rs[i].url = us[i]
            /\ results = [t \in Tasks |-> IF t = 1 THEN rs ELSE <<>>]
    /\ tpc = [t \in Tasks |-> IF t = 1 THEN "collected" ELSE "idle"]
    /\ analysis = [t \in Tasks |-> "none"]
    /\ calls = [t \in Tasks |-> <<>>]
    /\ cur = [t \in Tasks |-> NewCall]
    /\ issued = 0
    /\ ManagerConstructed
    /\ DefaultSettings

SendNext == \E t \in Tasks : SendAnalysisResult(t)

SendSpec == SendInit /\ [][SendNext]_vars

\* ------------------------------------------------------------------ claims
\* the configured send_content_type is screenshot_only
ScreenshotOnlyMode == send_content_type = "screenshot_only"

\* calls of process_single_url that hold a concurrency slot
Holding == {t \in Tasks : tpc[t] \in Active}

\* calls issued and not yet returned
InCall == {t \in Tasks : tpc[t] \in Active \cup {"PENDING"}}

\* C1: every call that acquired a slot gives it back exactly once on whatever
\* path it ends: the free slots and the calls in flight always add up to
\* max_concurrency, so once every call has returned all slots are free again.
C1_SlotReleasedOnEveryExit ==
    /\ sem + Cardinality(Holding) = max_concurrency
    /\ (InCall = {} => sem = max_concurrency)

\* calls ended by a cache hit, a success, a failure result and a caught
\* exception have all returned, and nothing is in flight
C1_Witness ==
    /\ InCall = {}
    /\ sem = max_concurrency
    /\ \E t \in Tasks : \E i \in 1..Len(calls[t]) :
            calls[t][i].raised # {} /\ IsFormattedError(results[t][i].result)
    /\ \E t \in Tasks : \E i \in 1..Len(calls[t]) :
            calls[t][i].hit # NoHit \/ ~IsFormattedError(results[t][i].result)

\* C2: at every moment at most max_concurrency calls are past the slot
\* acquisition.
C2_AtMostMaxHolding == Cardinality(Holding) <= max_concurrency

\* more calls than slots: one call waits while the slots are all taken
C2_Witness ==
    /\ sem = 0
    /\ Cardinality(Holding) = max_concurrency
    /\ \E t \in Tasks : tpc[t] = "PENDING"

\* C3: when more calls are issued than there are slots and every external
\* step ends, every issued call returns a result; none waits for a slot
\* forever.
C3_EveryCallReturns ==
    \A t \in Tasks : \A n \in 0..(MaxMsgUrls - 1) :
        (tpc[t] = "PENDING" /\ Len(results[t]) = n) ~> (Len(results[t]) > n)

\* a call waits for a slot that another call holds
C3_Witness ==
    \E t, h \in Tasks :
        /\ tpc[t] = "PENDING"
        /\ tpc[h] \in Active
        /\ sem = 0

\* steps whose exception reaches the `except Exception` of the call
HardSteps == {"lookup", "fetch", "extract", "write"}

\* steps that swallow their own exception and hand back None
SoftSteps == {"llm", "capture"}

Finished == {<<t, i>> \in Tasks \X (1..MaxMsgUrls) : i <= Len(calls[t])}

\* C4 as stated: every exception raised by a step of the call, the LLM
\* summarizer and the screenshot capture included, ends in a failure result
\* that carries a formatted error message.
C4_EveryExceptionFails ==
    \A c \in Finished :
        calls[c[1]][c[2]].raised # {} => IsFormattedError(results[c[1]][c[2]].result)

\* C4: no exception escapes the call.  An exception of the cache lookup, the
\* fetch, the extraction or the cache write ends the call with a failure result
\* carrying a formatted error message and no screenshot; an exception of the
\* LLM summarizer or of the capture is swallowed by its step, and the call
\* fails for it only in screenshot_only mode, where the capture is all there is.
C4_CatchAllBoundary ==
    \A c \in Finished :
        LET log == calls[c[1]][c[2]]
            res == results[c[1]][c[2]]
        IN  /\ res.url = urls[c[1]][c[2]]
            /\ (log.raised \cap HardSteps # {} =>
                    IsFormattedError(res.result) /\ res.screenshot = NoShot)
            /\ (ScreenshotOnlyMode /\ "capture" \in log.raised =>
                    IsFormattedError(res.result) /\ res.screenshot = NoShot)
            /\ (~ScreenshotOnlyMode /\ log.raised # {} /\ log.raised \subseteq SoftSteps =>
                    /\ ~IsFormattedError(res.result)
                    /\ ("llm" \in log.raised => res.result = Text("basic"))
                    /\ ("capture" \in log.raised => res.screenshot = NoShot))

\* one call ended by a caught exception and one that went on after the LLM
\* summarizer raised
C4_Witness ==
    /\ \E c \in Finished :
            calls[c[1]][c[2]].raised \cap HardSteps # {}
    /\ \E c \in Finished :
            /\ "llm" \in calls[c[1]][c[2]].raised
            /\ ~IsFormattedError(results[c[1]][c[2]].result)

\* C5: a batch yields exactly one result per input URL, in the order of the
\* URLs; a URL that fails gets a failure result and the URLs after it are
\* processed all the same.
C5_OneResultPerUrl ==
    \A t \in Tasks :
        /\ Len(results[t]) <= Len(urls[t])
        /\ \A i \in 1..Len(results[t]) : results[t][i].url = urls[t][i]
        /\ (tpc[t] = "collected" => Len(results[t]) = Len(urls[t]))

\* a batch of two ended with a failure for its first URL and a success for
\* its second
C5_Witness ==
    \E t \in Tasks :
        /\ tpc[t] = "collected"
        /\ Len(urls[t]) = 2
        /\ IsFormattedError(results[t][1].result)
        /\ ~IsFormattedError(results[t][2].result)

\* C6: the URLs of a batch are not serialized: while an earlier URL of the
\* batch is in flight and a slot is free, no later URL of the batch is left
\* unstarted.
C6_BatchNotSerialized ==
    \A t \in Tasks :
        (tpc[t] \in Active /\ sem > 0) => Len(urls[t]) <= Len(results[t]) + 1

\* C7: a page is fetched, and process_single_url is called, only for URLs
\* that is_domain_allowed accepted, whichever handler the URL came through.
C7_FetchOnlyAllowed ==
    \A t \in Tasks :
        tpc[t] \in Active \cup {"PENDING", "EXPORT_FETCHING"} =>
            \A i \in 1..Len(urls[t]) : is_domain_allowed(urls[t][i])

\* C8: in screenshot_only mode a call goes from PENDING to the capture (or
\* returns); it never fetches, extracts or summarizes, with or without a
\* cached entry.
C8_ScreenshotOnlySkipsPipeline ==
    ScreenshotOnlyMode =>
        /\ \A t \in Tasks : tpc[t] \notin {"FETCHING", "SUMMARIZING"}
        /\ \A c \in Finished :
                /\ calls[c[1]][c[2]].raised \cap {"fetch", "extract", "llm"} = {}
                /\ results[c[1]][c[2]].result \notin {Text("llm"), Text("basic")}

\* in screenshot_only mode one call was answered from the cache and another
\* is capturing
C8_Witness ==
    /\ ScreenshotOnlyMode
    /\ \E c \in Finished : calls[c[1]][c[2]].hit # NoHit
    /\ \E t \in Tasks : tpc[t] = "SCREENSHOTTING"

\* C9: a full-analysis lookup is never answered with a screenshot-only entry
\* and a screenshot-only lookup never with a full-analysis entry, whatever
\* entries the cache holds for the URL.
C9_NoCrossModeHit ==
    \A c \in Finished :
        calls[c[1]][c[2]].hit # NoHit =>
            (ScreenshotOnlyMode <=> calls[c[1]][c[2]].hit = "shot_mode")

\* the cache holds the entry of the other mode for the URL of a call that
\* looked the URL up, missed, and went on
C9_Witness ==
    \E t \in Tasks :
        /\ tpc[t] \in {"FETCHING", "SCREENSHOTTING"}
        /\ IF ScreenshotOnlyMode
           THEN CacheLive(cache, normalize_url(CurUrl(t)))
           ELSE CacheLive(cache, ScreenshotOnlyKey(CurUrl(t)))
        /\ enable_cache

\* a full-analysis call leaves PENDING or returns
LooksUp(t) ==
    /\ tpc[t] = "PENDING"
    /\ tpc'[t] # "PENDING" \/ results'[t] # results[t]
    /\ ~ScreenshotOnlyMode
    /\ enable_cache

\* C10: a full-analysis call whose normalized URL has an entry in the cache
\* (written by an earlier call, neither expired nor evicted) returns at once
\* with the text of that entry and fetches nothing, unless the lookup itself
\* raises.
C10_HitSkipsPipeline ==
    [][\A t \in Tasks :
        (LooksUp(t) /\ CacheLive(cache, normalize_url(CurUrl(t)))) =>
            /\ Len(results'[t]) = Len(results[t]) + 1
            /\ LET res == results'[t][Len(results'[t])]
                   log == calls'[t][Len(calls'[t])]
               IN  \/ "lookup" \in log.raised
                   \/ /\ log.hit # NoHit
                      /\ res.url = CurUrl(t)
                      /\ res.result = CacheValue(cache, normalize_url(CurUrl(t))).result
                      /\ res.screenshot \in
                            {NoShot, CacheValue(cache, normalize_url(CurUrl(t))).screenshot}
    ]_vars

\* one task's call wrote the entry of a URL and another task's call for the
\* same URL was answered from the cache
C10_Witness ==
    \E s, t \in Tasks :
        /\ s # t
        /\ ~ScreenshotOnlyMode
        /\ Len(calls[s]) = 1 /\ Len(calls[t]) = 1
        /\ urls[s] = urls[t]
        /\ urls[s][1].site = "b"
        /\ calls[s][1].hit = NoHit /\ ~IsFormattedError(results[s][1].result)
        /\ calls[t][1].hit # NoHit
        /\ results[t][1].result = results[s][1].result

\* C11 as stated: a failure of the result cache never changes the outcome of
\* a call.  A call in which the cache read or the cache write raised, and in
\* which neither the fetch nor the extraction failed, does not end with a
\* failure result: the read counts as a miss and the write is only logged.
C11_CacheFailureDegrades ==
    \A c \in Finished :
        LET log == calls[c[1]][c[2]]
        IN  (/\ log.raised \cap {"lookup", "write"} # {}
             /\ log.raised \cap {"fetch", "extract"} = {})
                => ~IsFormattedError(results[c[1]][c[2]].result)

\* C12 as stated: every result collected for a URL is a complete typed
\* result: it carries a boolean has_screenshot flag, and the flag is true
\* exactly when screenshot bytes are present, on every path of the call.
C12_TypedResult ==
    \A c \in Finished :
        LET res == results[c[1]][c[2]]
        IN  /\ res.has_screenshot \in {"true", "false"}
            /\ (res.has_screenshot = "true" <=> res.screenshot # NoShot)

\* C13: the results handed to send_analysis_result are in the order of the
\* URLs given to _batch_process_urls: once the batch is collected, the i-th
\* result is the result of the i-th URL, for successes and failures alike.
C13_ResultsInInputOrder ==
    \A t \in Tasks :
        tpc[t] = "collected" =>
            /\ Len(results[t]) = Len(urls[t])
            /\ \A i \in 1..Len(urls[t]) : results[t][i].url = urls[t][i]

\* a collected batch of two different URLs whose first URL succeeded and
\* whose second URL failed
C13_Witness ==
    \E t \in Tasks :
        /\ tpc[t] = "collected"
        /\ Len(urls[t]) = 2
        /\ urls[t][1] # urls[t][2]
        /\ ~IsFormattedError(results[t][1].result)
        /\ IsFormattedError(results[t][2].result)

\* C14: whatever sequence of put_to_memory, get_from_memory,
\* get_or_create_temp_path, reaper cycles and clear_all has run, the memory
\* cache holds at most max_memory_cache screenshots, one per URL hash: a put
\* evicts before it inserts.
C14_MemoryCacheBounded ==
    /\ Len(memory_cache) <= MaxMemoryCache
    /\ \A i, j \in 1..Len(memory_cache) :
            memory_cache[i].hash = memory_cache[j].hash => i = j

\* the cache is full after get_or_create_temp_path put the bytes of a URL
\* that had been put before
C14_Witness ==
    /\ Len(memory_cache) = MaxMemoryCache
    /\ last.op = "get_or_create_temp_path"
    /\ last.ret # None
    /\ ~accesses.distinct

\* C15: once max_memory_cache + 1 different URLs have been put, each once,
\* with reads in between, the least recently accessed of them (put or read
\* longest ago) is the one URL get_from_memory no longer returns, and every
\* other URL is returned with the bytes that were put for it.
C15_LruVictim ==
    (accesses.distinct /\ Len(accesses.order) = MaxMemoryCache + 1) =>
        /\ get_from_memory(memory_cache, accesses.order[1].url).ret = None
        /\ \A i \in 2..Len(accesses.order) :
                get_from_memory(memory_cache, accesses.order[i].url).ret
                    = accesses.order[i].data

\* max_memory_cache + 1 URLs were put and one of them is gone from the cache
C15_Witness ==
    /\ accesses.distinct
    /\ Len(accesses.order) = MaxMemoryCache + 1
    /\ Len(memory_cache) = MaxMemoryCache
    /\ \E u \in ShotUrls : ~InMemory(memory_cache, get_url_hash(u))

\* C16 as stated: after one reaper cycle every screenshot record whose age
\* exceeds ttl has its file removed: right after a cycle no screenshot file
\* older than ttl is left on disk.
C16_ReaperRemovesExpired ==
    last.op = "_cleanup_expired_files" =>
        \A h \in Hashes :
            LET f == disk[cache_screenshot_path(h)]
            IN  (f # NoFile /\ now - f.at > Ttl) => FALSE

\* C18: once a call of shutdown() has returned, the reaper task has ended
\* and no reaper cycle runs any more; a second call of shutdown() returns
\* with the task still ended.
C18_ShutdownStopsReaper ==
    \A c \in Closers :
        closing[c] \in {"returned", "returned_twice"} =>
            /\ cleanup_task = "done"
            /\ last.op # "_cleanup_expired_files"

\* shutdown() has returned for the second time on a manager that had
\* written a file
C18_Witness ==
    /\ \E c \in Closers : closing[c] = "returned_twice"
    /\ \E q \in Paths : disk[q] # NoFile

\* a step of get_or_create_temp_path(u, d)
GocCall(u, d) == \E w \in WriteOutcomes : GetOrCreateTempPath(u, d, w)

\* the call found the file: it returns the path, leaves the file alone and
\* caches the bytes it was given
FoundOutcome(u, d) ==
    /\ last'.ret = cache_screenshot_path(get_url_hash(u))
    /\ disk' = disk
    /\ IF d \notin {None, Empty}
       THEN /\ InMemory(memory_cache', get_url_hash(u))
            /\ MemoryBytes(memory_cache', get_url_hash(u)) = d
       ELSE memory_cache' = memory_cache

\* the call wrote the bytes to the file, cached them and returns the path
CreatedOutcome(u, d) ==
    /\ last'.ret = cache_screenshot_path(get_url_hash(u))
    /\ disk'[cache_screenshot_path(get_url_hash(u))].data = d
    /\ \A q \in Paths \ {cache_screenshot_path(get_url_hash(u))} : disk'[q] = disk[q]
    /\ InMemory(memory_cache', get_url_hash(u))
    /\ MemoryBytes(memory_cache', get_url_hash(u)) = d

\* the call returns absent and changes neither the disk nor the memory cache
AbsentOutcome ==
    /\ last'.ret = None
    /\ disk' = disk
    /\ memory_cache' = memory_cache

\* the write failed: the call returns absent and leaves the memory cache as
\* it was
WriteFailedOutcome(u) ==
    /\ last'.ret = None
    /\ memory_cache' = memory_cache
    /\ \A q \in Paths \ {cache_screenshot_path(get_url_hash(u))} : disk'[q] = disk[q]

\* C19 as stated: get_or_create_temp_path has exactly three outcomes: the
\* file exists (path returned, file untouched, bytes cached); else bytes are
\* supplied (file written, bytes cached, path returned); else absent with
\* disk and memory cache unchanged.
C19_ThreeOutcomes ==
    [][\A u \in FileUrls : \A d \in ShotBytes \cup {None, Empty} :
        GocCall(u, d) =>
            IF disk[cache_screenshot_path(get_url_hash(u))] # NoFile
            THEN FoundOutcome(u, d)
            ELSE IF d # None THEN CreatedOutcome(u, d) ELSE AbsentOutcome
    ]_vars

\* C19: get_or_create_temp_path has four outcomes: the file exists (path
\* returned, file untouched, non-empty bytes cached); else non-empty bytes are
\* supplied and the write succeeds (file written, bytes cached, path
\* returned); else non-empty bytes are supplied and the write fails (absent
\* returned, memory cache unchanged); else absent with disk and memory cache
\* unchanged.
C19_FourOutcomes ==
    [][\A u \in FileUrls : \A d \in ShotBytes \cup {None, Empty} :
        GocCall(u, d) =>
            IF disk[cache_screenshot_path(get_url_hash(u))] # NoFile
            THEN FoundOutcome(u, d)
            ELSE IF d \notin {None, Empty}
                 THEN CreatedOutcome(u, d) \/ WriteFailedOutcome(u)
                 ELSE AbsentOutcome
    ]_vars

\* a call with bytes returned absent because its write failed, after another
\* call had created the file of another URL
C19_Witness ==
    /\ last.op = "get_or_create_temp_path"
    /\ last.ret = None
    /\ \E q \in Paths : disk[q] # NoFile /\ disk[q].data = Partial
    /\ \E q \in Paths : disk[q] # NoFile /\ disk[q].data \in ShotBytes

\* C20 as stated: every screenshot file holds the complete bytes of one
\* writer, and a call that returns a path returns the one path of its URL,
\* whose file is there.
C20_OneCompleteFile ==
    /\ \A q \in Paths : disk[q] = NoFile \/ disk[q].data \in ShotBytes
    /\ (last.op = "get_or_create_temp_path" /\ last.ret # None) =>
            /\ last.ret \in Paths
            /\ disk[last.ret] # NoFile

\* C17: a delete step of the reaper leaves no stale index entry and lets no
\* exception out: after _remove_file(h) for a tracked h, h is in neither the
\* metadata nor the memory cache, whether the unlink succeeded, failed or the
\* file was already gone; and a reaper cycle does so for every expired hash,
\* a failed unlink of one not keeping it from the others.
C17_NoStaleEntry ==
    [][/\ \A h \in DOMAIN file_metadata : \A unlink \in UnlinkOutcomes :
            RemoveFile(h, unlink) =>
                /\ h \notin DOMAIN file_metadata'
                /\ ~InMemory(memory_cache', h)
       /\ CleanupLoop =>
            \A h \in DOMAIN file_metadata :
                now - file_metadata[h].created_at > Ttl =>
                    /\ h \notin DOMAIN file_metadata'
                    /\ ~InMemory(memory_cache', h)
    ]_vars

\* _remove_file has run, and a hash is tracked no more and gone from the
\* memory cache while its file is still on disk: its unlink failed
C17_Witness ==
    /\ last.op = "_remove_file"
    /\ \E h \in Hashes :
            /\ h \notin DOMAIN file_metadata
            /\ ~InMemory(memory_cache, h)
            /\ disk[cache_screenshot_path(h)] # NoFile

\* C21: the number of slots of the pipeline's semaphore (free slots plus slots
\* held) equals the configured max_concurrency clamped to [1, 20], for every
\* configuration the plugin is started with.
C21_SlotsAsConfigured ==
    /\ max_concurrency = ClampConcurrency(config_max_concurrency)
    /\ sem + Cardinality(Holding) = ClampConcurrency(config_max_concurrency)

\* C22: /web_mode <m> for an advertised mode m (auto, manual, hybrid, LLMTOOL)
\* sets analysis_mode to m and auto_analyze to (m = auto); any other argument
\* leaves analysis_mode and auto_analyze unchanged.
C22_EveryAdvertisedModeSelectable ==
    [][\A m \in ModeArgs :
          last' = Did("web_mode", m) =>
              IF m \in AnalysisModes
              THEN analysis_mode' = m /\ auto_analyze' = (m = "auto")
              ELSE UNCHANGED <<analysis_mode, auto_analyze>>]_vars

\* C23: no URL is processed by two batches at the same time (a batch does not
\* start process_single_url for a URL that is in processing_urls for another
\* batch), and a URL is in processing_urls exactly while some batch is
\* processing it.
C23_NoUrlProcessedTwice ==
    /\ \A s, t \in InCall : CurUrl(s) = CurUrl(t) => s = t
    /\ processing_urls = {CurUrl(t) : t \in InCall}

C25_EveryFileRegistered ==
    \A h \in Hashes :
        LET p == cache_screenshot_path(h)
        IN  disk[p] # NoFile =>
                /\ h \in DOMAIN file_metadata
                /\ file_metadata[h].path = p
                /\ file_metadata[h].created_at = disk[p].at

\* C26: a put (put_to_memory, directly or from a get_or_create_temp_path that
\* returns the path) for a URL that is already in the memory cache replaces the bytes of that URL and
\* evicts no other URL, also when the cache is full.
C26_RePutEvictsNothing ==
    [][\A u \in ShotUrls, d \in ShotBytes :
          (/\ InMemory(memory_cache, get_url_hash(u))
           /\ \/ PutToMemory(u, d)
              \/ \E w \in WriteOutcomes :
                    GetOrCreateTempPath(u, d, w) /\ last'.ret # None)
          => /\ MemoryBytes(memory_cache', get_url_hash(u)) = d
             /\ \A i \in 1..Len(memory_cache) :
                    memory_cache[i].hash # get_url_hash(u) =>
                        /\ InMemory(memory_cache', memory_cache[i].hash)
                        /\ MemoryBytes(memory_cache', memory_cache[i].hash)
                               = memory_cache[i].data]_vars

\* C27: after terminate() has returned no background task of the plugin is
\* still running: the screenshot reaper task has ended and no timed recall
\* task is pending in recall_tasks.
C27_NothingRunsAfterTerminate ==
    terminated => (cleanup_task = "done" /\ recall_tasks = <<>>)

\* C28: no entry point sends a processing notice or starts the batch for an
\* event whose group is in group_blacklist at the time of the event, after
\* any sequence of group_blacklist add / remove / clear commands.
C28_BlacklistedGroupNotServed ==
    handler.pc \in {"batch", "recall_sleeping"} => ~handler.blacklisted

\* C29: every fetch of a web page runs while its task holds a concurrency
\* slot (each task in a fetch accounts for one taken slot), so at most
\* max_concurrency fetches are in flight, web_export included.
C29_EveryFetchHoldsSlot ==
    /\ Cardinality({t \in Tasks : tpc[t] \in {"FETCHING", "EXPORT_FETCHING"}})
           <= max_concurrency
    /\ sem + Cardinality({t \in Tasks : tpc[t] \in Active \cup {"EXPORT_FETCHING"}})
           = max_concurrency

\* C30: send_analysis_result suppresses output only when every result of the
\* batch is a failure: with at least one successfully analysed URL (a result
\* that is not an error message, with or without a screenshot) at least one
\* message is emitted, and with failures only nothing is emitted.
C30_SuppressedOnlyWhenAllFail ==
    \A t \in Tasks :
        tpc[t] = "sent" =>
            IF \E i \in 1..Len(results[t]) : ~IsFormattedError(results[t][i].result)
            THEN sent >= 1
            ELSE sent = 0

====
